---- MODULE Spec2Model ----
(***************************************************************************)
(* Model of pownycli/client.py: the click command tree (cli -> rules ->    *)
(* upload/exec, cli -> gns -> cluster-info/job-list/kill-job/send-event),  *)
(* its option callbacks and main().  The modules client.py imports but     *)
(* that are not part of the source tree (uploader, gnsapi, checker,        *)
(* Settings) are modelled from the specification of their contracts.       *)
(***************************************************************************)
EXTENDS Integers, Sequences, FiniteSets, TLC

VARIABLES
    remoteRules,   \* RemoteRuleStore: the authoritative rule set
    remoteToken,   \* RemoteRuleStore: its version token
    jobs,          \* remote: job ids the job list shows
    marked,        \* remote: job ids marked `should be deleted`
    localRules,    \* per client: RuleRepository.currentRuleSet()
    lastSync,      \* per client: last-synchronized version token
    up,            \* per client: the upload invocation in flight
    inv            \* the invocation that finished last, with its outcome

vars == <<remoteRules, remoteToken, jobs, marked, localRules, lastSync, up, inv>>

\* ------------------------------------------------------------------ bounds
MaxToken == 2

\* ------------------------------------------------------------------ values
None == "None"

NoneDoc == [t |-> "None"]

Truthy(s) == s # None /\ s # ""

Return(v) == [raised |-> "no", value |-> v]

Raise(e) == [raised |-> e, value |-> None]

Clients == {"c1", "c2"}

\* --rules-path values: a git checkout, a plain directory, a regular file
\* (click.Path(exists=True) accepts any existing path).
RulesPaths == {"repo", "plaindir", "afile"}

FlagUrls == {None, "http://flag"}

EnvUrls == {None, "http://env"}

CfgUrls == {None, "http://cfg"}

\* Contents of the file given as --event-desc / --file.
FileTexts == {"{host,service,severity}", "null", "{not json"}

\* Positional arguments of send-event fill host, service, severity in order.
ArgWords == {"", "x"}

ArgLists == {<<>>} \cup {<<a>> : a \in ArgWords}
            \cup {<<a, b>> : a \in ArgWords, b \in ArgWords}
            \cup {<<a, b, c>> : a \in ArgWords, b \in ArgWords, c \in ArgWords}

Messages == {"fix"}

JobIds == {"job-42"}

Paths == {"a.rule", "b.rule"}

\* ------------------------------------------------- os / json / click / Settings
listdir(path) ==
    CASE path = "repo" -> Return({".git", "a.rule", "b.rule"})
      [] path = "plaindir" -> Return({"a.rule", "b.rule"})
      [] OTHER -> Raise("NotADirectoryError")

json_load(text) ==
    CASE text = "{host,service,severity}" ->
            Return([t |-> "dict", host |-> "web1", service |-> "http", severity |-> "CRIT"])
      [] text = "null" -> Return(NoneDoc)
      [] OTHER -> Raise("ValueError")

\* click: an option with envvar= takes the command line value, else the
\* environment variable, else its default (None).
click_option_envvar(flag, env) == IF flag # None THEN flag ELSE env

\* click: argument number i of a command whose arguments are required=False.
click_argument(args, i) == IF i <= Len(args) THEN args[i] ELSE None

\* ------------------------------------------------------------ option callbacks
_validate_repo_path_novalidate(value) == Return(value)

_validate_repo_path(value) ==
    LET ls == listdir(value)
    IN  IF ls.raised # "no" THEN Raise(ls.raised)
        ELSE IF ".git" \notin ls.value THEN Raise("BadParameter")
        ELSE Return(value)

\* Returns the parsed document and whether LOG.error was called.
_validate_event_desc(event_file) ==
    LET r == json_load(event_file)
    IN  IF r.raised \in {"TypeError", "ValueError"}
        THEN [raised |-> "no", value |-> NoneDoc, logged |-> TRUE]
        ELSE [raised |-> r.raised, value |-> r.value, logged |-> FALSE]

_read_gns_api_url_from_settings(api_url, settings_url) ==
    IF Truthy(api_url) THEN Return(api_url)
    ELSE IF Truthy(settings_url) THEN Return(settings_url)
    ELSE Return(None)   \* click.BadParameter(...) is built, not raised

\* ------------------------------------------------------------------- commands
\* rules upload: the call it makes to uploader.upload.
upload_always_force(rules_path, api_url, message, force) ==
    [api_url |-> api_url, rules_path |-> rules_path, message |-> message, force |-> TRUE]

upload_never_force(rules_path, api_url, message, force) ==
    [api_url |-> api_url, rules_path |-> rules_path, message |-> message, force |-> FALSE]

upload(rules_path, api_url, message, force) ==
    [api_url |-> api_url, rules_path |-> rules_path, message |-> message, force |-> force]

\* rules exec: the call it makes to checker.check.
execute(rules_path, event_desc) ==
    [rules_path |-> rules_path, event_desc |-> event_desc]

\* gns send-event: how the body ends and the calls it makes to gnsapi.send_event.
send_event_positionals_first(api_url, host, service, severity, file) ==
    IF Truthy(host) /\ Truthy(service) /\ Truthy(severity)
    THEN [raised |-> "no", code |-> 0, logged |-> FALSE,
          calls |-> << [api_url |-> api_url,
                        event |-> [t |-> "dict", host |-> host, service |-> service,
                                   severity |-> severity]] >>]
    ELSE IF file # None
    THEN LET r == json_load(file)
         IN  IF r.raised # "no"
             THEN [raised |-> r.raised, code |-> 0, logged |-> FALSE, calls |-> << >>]
             ELSE [raised |-> "no", code |-> 0, logged |-> FALSE,
                   calls |-> << [api_url |-> api_url, event |-> r.value] >>]
    ELSE [raised |-> "SystemExit", code |-> 1, logged |-> TRUE, calls |-> << >>]

send_event(api_url, host, service, severity, file) ==
    IF file # None
    THEN LET r == json_load(file)
         IN  IF r.raised # "no"
             THEN [raised |-> r.raised, code |-> 0, logged |-> FALSE, calls |-> << >>]
             ELSE [raised |-> "no", code |-> 0, logged |-> FALSE,
                   calls |-> << [api_url |-> api_url, event |-> r.value] >>]
    ELSE IF Truthy(host) /\ Truthy(service) /\ Truthy(severity)
    THEN [raised |-> "no", code |-> 0, logged |-> FALSE,
          calls |-> << [api_url |-> api_url,
                        event |-> [t |-> "dict", host |-> host, service |-> service,
                                   severity |-> severity]] >>]
    ELSE [raised |-> "SystemExit", code |-> 1, logged |-> TRUE, calls |-> << >>]

main_bare_except(raised, code) == [exit |-> 1, logged |-> TRUE]

main_log_only(raised, code) ==
    CASE raised = "no" -> [exit |-> 0, logged |-> FALSE]
      [] raised = "BadParameter" -> [exit |-> 2, logged |-> TRUE]
      [] raised = "SystemExit" -> [exit |-> code, logged |-> FALSE]
      [] OTHER -> [exit |-> 0, logged |-> TRUE]

\* main(): what the process exits with, given how cli() ended.  click itself
\* reports a BadParameter and exits 2; sys.exit passes through; any other
\* exception is logged by main() and the process exits 1.
main(raised, code) ==
    CASE raised = "no" -> [exit |-> 0, logged |-> FALSE]
      [] raised = "BadParameter" -> [exit |-> 2, logged |-> TRUE]
      [] raised = "SystemExit" -> [exit |-> code, logged |-> FALSE]
      [] OTHER -> [exit |-> 1, logged |-> TRUE]

\* ------------------------------------- uploader, checker, gnsapi (contracts)
\* Whether a network call to the remote service gets an answer.
Reachable(api_url, net) == api_url # None /\ net = "ok"

\* UploadManifest: the rules of `local` that differ from `remote`.
Manifest(remote, local) ==
    [p \in {q \in Paths : remote[q] # local[q]} |-> local[p]]

ApplyManifest(rules, manifest) ==
    [p \in Paths |-> IF p \in DOMAIN manifest THEN manifest[p] ELSE rules[p]]

\* RemoteRuleStore.push(manifest, versionToken): the remote's state after it.
push(rules, token, manifest, versionToken) ==
    IF versionToken # token
    THEN [ok |-> FALSE, rules |-> rules, token |-> token]
    ELSE [ok |-> TRUE, rules |-> ApplyManifest(rules, manifest), token |-> token + 1]

\* Uploader steps 3-6, after the fetch: the outcome and the remote's state.
uploader_decide(u, sync, rules, token, net) ==
    IF u.token # sync /\ ~u.force
    THEN [err |-> "SyncConflictError", cause |-> "remote-advanced", pushed |-> FALSE, rules |-> rules, token |-> token,
          sync |-> sync]
    ELSE IF DOMAIN u.manifest = {}
    THEN [err |-> "none", cause |-> "none", pushed |-> FALSE, rules |-> rules, token |-> token,
          sync |-> u.token]
    ELSE IF net # "ok"
    THEN [err |-> "TransportError", cause |-> "none", pushed |-> FALSE, rules |-> rules, token |-> token,
          sync |-> sync]
    ELSE LET r == push(rules, token, u.manifest, u.token)
         IN  IF r.ok
             THEN [err |-> "none", cause |-> "none", pushed |-> TRUE, rules |-> r.rules, token |-> r.token,
                   sync |-> r.token]
             ELSE [err |-> "SyncConflictError", cause |-> "VersionConflict", pushed |-> FALSE, rules |-> rules,
                   token |-> token, sync |-> sync]

\* checker.check(config, rules_path, event_desc): how it ends.  What it does
\* with an event that is None is not fixed by its contract: `onNone` is either.
check(call, onNone) ==
    IF call.event_desc = NoneDoc THEN onNone ELSE "ok"

\* gnsapi.terminate_job: the remote marks the job `should be deleted`; the
\* job list keeps it.  Asking for a job the remote does not list is answered
\* with an error.
terminate_job(api_url, job_id, net, js, ms) ==
    IF Reachable(api_url, net) /\ job_id \in js
    THEN [raised |-> "no", jobs |-> js, marked |-> ms \cup {job_id}]
    ELSE [raised |-> "TransportError", jobs |-> js, marked |-> ms]

\* gns kill-job: the call to gnsapi.terminate_job and nothing else.
kill_job_wait_until_gone(api_url, job_id, net, js, ms) ==
    LET r == terminate_job(api_url, job_id, net, js, ms)
    IN  IF r.raised = "no" THEN [r EXCEPT !.jobs = js \ {job_id}] ELSE r

kill_job(api_url, job_id, net, js, ms) ==
    terminate_job(api_url, job_id, net, js, ms)

\* gnsapi.get_jobs / get_cluster_info / send_event: one network call each.
gnsapi_call(api_url, net) ==
    IF Reachable(api_url, net) THEN "no" ELSE "TransportError"

\* ---------------------------------------------------------------------- state
R0 == [p \in Paths |-> IF p = "a.rule" THEN "v1" ELSE "absent"]

UpIdle == [pc |-> "idle", rules_path |-> None, api_url |-> None, force |-> FALSE,
           opt_force |-> FALSE,
           token |-> 0, manifest |-> Manifest(R0, R0)]

InvNone == [cmd |-> "none", client |-> "-", rules_path |-> None, api_url |-> None,
            file |-> None, args |-> << >>, job |-> None, force |-> FALSE,
            conflict |-> FALSE, pushed |-> FALSE, cause |-> "none",
            uploadCalled |-> FALSE, checkCalled |-> FALSE, checkEvent |-> NoneDoc,
            sendCalls |-> 0, sendEvent |-> NoneDoc, listed |-> {},
            err |-> "none", logged |-> FALSE, exit |-> 0]

\* The rule sets a checkout is committed to: the first one, or that with
\* a.rule changed, or with b.rule added.
Checkouts == {R0, [R0 EXCEPT !["a.rule"] = "v2"], [R0 EXCEPT !["b.rule"] = "v1"]}

\* Both clients have cloned the remote's rule set at token 0.
Init ==
    /\ remoteRules = R0
    /\ remoteToken = 0
    /\ jobs = JobIds
    /\ marked = {}
    /\ localRules = [c \in Clients |-> R0]
    /\ lastSync = [c \in Clients |-> 0]
    /\ up = [c \in Clients |-> UpIdle]
    /\ inv = InvNone

\* The operator's checkout c1 holds a commit not uploaded yet, and the other
\* client has pushed once since c1 last synchronised.
InitCli ==
    /\ remoteRules = [R0 EXCEPT !["b.rule"] = "v1"]
    /\ remoteToken = 1
    /\ jobs = JobIds
    /\ marked = {}
    /\ localRules = [c \in Clients |->
                        IF c = "c1" THEN [R0 EXCEPT !["a.rule"] = "v2"]
                        ELSE [R0 EXCEPT !["b.rule"] = "v1"]]
    /\ lastSync = [c \in Clients |-> IF c = "c1" THEN 0 ELSE 1]
    /\ up = [c \in Clients |-> UpIdle]
    /\ inv = InvNone

\* The taxonomy's name for what the rules group's path validation raised.
RepoError(raised) == IF raised = "no" THEN "none" ELSE "NotARepositoryError"

\* --------------------------------------------------------------------- actions
\* The operator commits a change in checkout c.
Edit(c) ==
    /\ up[c].pc = "idle"
    /\ \E r \in Checkouts :
          /\ r # localRules[c]
          /\ localRules' = [localRules EXCEPT ![c] = r]
    /\ UNCHANGED <<remoteRules, remoteToken, jobs, marked, lastSync, up, inv>>

\* `rules upload` up to the uploader's fetch of the remote's token and rules.
\* The URL comes from --api-url or from nowhere here; the gns commands below,
\* which share the callback, draw it from all three of its sources.
UploadStart(c) ==
    /\ up[c].pc = "idle"
    /\ \E path \in RulesPaths, flag \in FlagUrls, message \in Messages,
          force \in BOOLEAN, net \in {"ok", "fail"} :
          LET v == _validate_repo_path(path)
              url == _read_gns_api_url_from_settings(click_option_envvar(flag, None), None)
              call == upload(v.value, url.value, message, force)
              base == [InvNone EXCEPT !.cmd = "upload", !.client = c, !.rules_path = path,
                                      !.api_url = url.value, !.force = force]
          IN  IF v.raised # "no"
              THEN /\ inv' = [base EXCEPT !.err = RepoError(v.raised),
                                          !.logged = main(v.raised, 0).logged,
                                          !.exit = main(v.raised, 0).exit]
                   /\ up' = up
              ELSE IF ~Reachable(call.api_url, net)
              THEN /\ inv' = [base EXCEPT !.uploadCalled = TRUE,
                                          !.conflict = remoteToken # lastSync[c],
                                          !.err = "TransportError",
                                          !.logged = main("TransportError", 0).logged,
                                          !.exit = main("TransportError", 0).exit]
                   /\ up' = up
              ELSE /\ up' = [up EXCEPT ![c] =
                              [pc |-> "fetched", rules_path |-> call.rules_path,
                               api_url |-> call.api_url, force |-> call.force,
                               opt_force |-> force,
                               token |-> remoteToken,
                               manifest |-> Manifest(remoteRules, localRules[c])]]
                   /\ inv' = inv
    /\ UNCHANGED <<remoteRules, remoteToken, jobs, marked, localRules, lastSync>>

\* The rest of `rules upload`: conflict check, push, record the token, exit.
UploadFinish(c) ==
    /\ up[c].pc = "fetched"
    /\ \E net \in {"ok", "fail"} :
          LET o == uploader_decide(up[c], lastSync[c], remoteRules, remoteToken, net)
              raised == IF o.err = "none" THEN "no" ELSE o.err
          IN  /\ o.token <= MaxToken
              /\ remoteRules' = o.rules
              /\ remoteToken' = o.token
              /\ lastSync' = [lastSync EXCEPT ![c] = o.sync]
              /\ inv' = [InvNone EXCEPT !.cmd = "upload", !.client = c,
                                        !.rules_path = up[c].rules_path,
                                        !.api_url = up[c].api_url,
                                        !.force = up[c].opt_force,
                                        !.conflict = (up[c].token # lastSync[c]),
                                        !.uploadCalled = TRUE,
                                        !.pushed = o.pushed,
                                        !.err = o.err,
                                        !.cause = o.cause,
                                        !.logged = main(raised, 0).logged,
                                        !.exit = main(raised, 0).exit]
    /\ up' = [up EXCEPT ![c] = UpIdle]
    /\ UNCHANGED <<jobs, marked, localRules>>

\* `rules exec`.
Exec(c) ==
    /\ up[c].pc = "idle"
    /\ \E path \in RulesPaths, file \in FileTexts, onNone \in {"ok", "Exception"} :
          LET v == _validate_repo_path(path)
              e == _validate_event_desc(file)
              call == execute(v.value, e.value)
              r == check(call, onNone)
              raised == IF r = "ok" THEN "no" ELSE r
              base == [InvNone EXCEPT !.cmd = "exec", !.rules_path = path, !.file = file]
          IN  IF v.raised # "no"
              THEN inv' = [base EXCEPT !.err = RepoError(v.raised),
                                       !.logged = main(v.raised, 0).logged,
                                       !.exit = main(v.raised, 0).exit]
              ELSE inv' = [base EXCEPT !.checkCalled = TRUE,
                                       !.checkEvent = call.event_desc,
                                       !.err = IF e.logged THEN "EventFormatError" ELSE "none",
                                       !.logged = e.logged \/ main(raised, 0).logged,
                                       !.exit = main(raised, 0).exit]
    /\ UNCHANGED <<remoteRules, remoteToken, jobs, marked, localRules, lastSync, up>>

\* `gns cluster-info`.
ClusterInfo(c) ==
    /\ up[c].pc = "idle"
    /\ \E flag \in FlagUrls, env \in EnvUrls, cfg \in CfgUrls, net \in {"ok", "fail"} :
          LET url == _read_gns_api_url_from_settings(click_option_envvar(flag, env), cfg)
              r == gnsapi_call(url.value, net)
          IN  inv' = [InvNone EXCEPT !.cmd = "cluster-info", !.api_url = url.value,
                                     !.err = IF r = "no" THEN "none" ELSE r,
                                     !.logged = main(r, 0).logged,
                                     !.exit = main(r, 0).exit]
    /\ UNCHANGED <<remoteRules, remoteToken, jobs, marked, localRules, lastSync, up>>

\* `gns job-list`.
JobList(c) ==
    /\ up[c].pc = "idle"
    /\ \E flag \in FlagUrls, env \in EnvUrls, cfg \in CfgUrls, net \in {"ok", "fail"} :
          LET url == _read_gns_api_url_from_settings(click_option_envvar(flag, env), cfg)
              r == gnsapi_call(url.value, net)
          IN  inv' = [InvNone EXCEPT !.cmd = "job-list", !.api_url = url.value,
                                     !.listed = IF r = "no" THEN jobs ELSE {},
                                     !.err = IF r = "no" THEN "none" ELSE r,
                                     !.logged = main(r, 0).logged,
                                     !.exit = main(r, 0).exit]
    /\ UNCHANGED <<remoteRules, remoteToken, jobs, marked, localRules, lastSync, up>>

\* `gns kill-job JOB_ID`.
KillJob(c) ==
    /\ up[c].pc = "idle"
    /\ \E flag \in FlagUrls, env \in EnvUrls, cfg \in CfgUrls, net \in {"ok", "fail"},
          job_id \in JobIds :
          LET url == _read_gns_api_url_from_settings(click_option_envvar(flag, env), cfg)
              k == kill_job(url.value, job_id, net, jobs, marked)
          IN  /\ jobs' = k.jobs
              /\ marked' = k.marked
              /\ inv' = [InvNone EXCEPT !.cmd = "kill-job", !.api_url = url.value,
                                        !.job = job_id,
                                        !.err = IF k.raised = "no" THEN "none" ELSE k.raised,
                                        !.logged = main(k.raised, 0).logged,
                                        !.exit = main(k.raised, 0).exit]
    /\ UNCHANGED <<remoteRules, remoteToken, localRules, lastSync, up>>

\* `gns send-event [HOST SERVICE SEVERITY] [--file F]`.
SendEvent(c) ==
    /\ up[c].pc = "idle"
    /\ \E flag \in FlagUrls, env \in EnvUrls, cfg \in CfgUrls, net \in {"ok", "fail"},
          args \in ArgLists, file \in FileTexts \cup {None} :
          LET url == _read_gns_api_url_from_settings(click_option_envvar(flag, env), cfg)
              s == send_event(url.value, click_argument(args, 1), click_argument(args, 2),
                              click_argument(args, 3), file)
              raised == IF s.raised # "no" THEN s.raised
                        ELSE IF Len(s.calls) = 0 THEN "no"
                        ELSE gnsapi_call(s.calls[1].api_url, net)
          IN  inv' = [InvNone EXCEPT !.cmd = "send-event", !.api_url = url.value,
                                     !.file = file, !.args = args,
                                     !.sendCalls = Len(s.calls),
                                     !.sendEvent = IF Len(s.calls) = 0 THEN NoneDoc
                                                   ELSE s.calls[1].event,
                                     !.err = IF raised = "TransportError" THEN raised
                                             ELSE "none",
                                     !.logged = s.logged \/ main(raised, s.code).logged,
                                     !.exit = main(raised, s.code).exit]
    /\ UNCHANGED <<remoteRules, remoteToken, jobs, marked, localRules, lastSync, up>>

\* The cluster removes a job that is marked for deletion, some time later.
RemoteReap ==
    /\ \E j \in marked \cap jobs : jobs' = jobs \ {j}
    /\ UNCHANGED <<remoteRules, remoteToken, marked, localRules, lastSync, up, inv>>

\* Rule synchronisation: the checkouts, the uploads and the remote rule store.
Next ==
    \/ \E c \in Clients : Edit(c)
    \/ \E c \in Clients : UploadStart(c)
    \/ \E c \in Clients : UploadFinish(c)

Spec == Init /\ [][Next]_vars

\* The whole command line, run by the operator of checkout c1.
NextCli ==
    \/ UploadStart("c1")
    \/ UploadFinish("c1")
    \/ Exec("c1")
    \/ ClusterInfo("c1")
    \/ JobList("c1")
    \/ KillJob("c1")
    \/ SendEvent("c1")
    \/ RemoteReap

CliSpec == InitCli /\ [][NextCli]_vars

\* ---------------------------------------------------------------------- claims
\* Client c's upload returns in this step, having fetched the remote before.
Returns(c) == up[c].pc = "fetched" /\ up'[c].pc = "idle"

ConflictAtFetch(c) == up[c].token # lastSync[c]

RemoteUnchanged == remoteRules' = remoteRules /\ remoteToken' = remoteToken

\* C1: an upload invoked without --force while the remote's version token
\* differs from the checkout's last-synchronized token fails with
\* SyncConflictError and leaves the remote's rule set and token as they were.
C1_ConflictWithoutForceFails ==
    [][\A c \in Clients :
          (Returns(c) /\ ConflictAtFetch(c) /\ ~up[c].opt_force)
          => /\ inv'.err = "SyncConflictError"
             /\ inv'.exit # 0
             /\ ~inv'.pushed
             /\ RemoteUnchanged]_vars

\* Both clients start from token 0, c1 has pushed to token 1, and c2's later
\* upload without --force has failed with SyncConflictError.
C1_Witness ==
    /\ inv.cmd = "upload" /\ inv.client = "c2" /\ ~inv.force
    /\ inv.err = "SyncConflictError" /\ inv.cause = "remote-advanced"
    /\ remoteToken = 1 /\ lastSync["c1"] = 1 /\ lastSync["c2"] = 0
    /\ remoteRules = localRules["c1"]

C3_UnchangedUploadIsNoOp ==
    [][\A c \in Clients :
          /\ (up[c].pc = "idle" /\ up'[c].pc = "fetched" /\ localRules[c] = remoteRules)
             => DOMAIN up'[c].manifest = {}
          /\ (Returns(c) /\ ~ConflictAtFetch(c) /\ DOMAIN up[c].manifest = {})
             => /\ inv'.exit = 0 /\ inv'.err = "none"
                /\ ~inv'.pushed
                /\ RemoteUnchanged
                /\ lastSync'[c] = lastSync[c]]_vars

\* After a push to token 1 by c1, c1's upload of the same rules succeeded
\* without pushing.
C3_Witness ==
    /\ inv.cmd = "upload" /\ inv.client = "c1" /\ ~inv.conflict
    /\ inv.exit = 0 /\ ~inv.pushed
    /\ remoteToken = 1 /\ lastSync["c1"] = 1 /\ remoteRules = localRules["c1"]
    /\ remoteRules # R0

\* C4: a push that follows another client's accepted push is rejected for its
\* stale token and surfaces as SyncConflictError, the invocation ending there;
\* and the remote's rule set only ever changes, as a whole, to the rule set of
\* a client whose push carried the remote's current token.
C4_RacedPushRejected ==
    [][/\ \A c \in Clients :
             (Returns(c) /\ up[c].token # remoteToken
                 /\ ~(ConflictAtFetch(c) /\ ~up[c].force)
                 /\ DOMAIN up[c].manifest # {}
                 /\ inv'.err # "TransportError")
             => /\ RemoteUnchanged
                /\ inv'.err = "SyncConflictError" /\ inv'.cause = "VersionConflict"
                /\ inv'.exit # 0 /\ inv'.logged
                /\ lastSync'[c] = lastSync[c]
       /\ ~RemoteUnchanged
             => \E c \in Clients :
                   /\ Returns(c) /\ up[c].token = remoteToken
                   /\ remoteRules' = localRules[c]
                   /\ remoteToken' = remoteToken + 1]_vars

\* c2's push raced with c1's: c1's was accepted, c2's was rejected, and the
\* remote holds c1's rule set, not c2's.
C4_Witness ==
    /\ inv.cmd = "upload" /\ inv.client = "c2" /\ ~inv.conflict
    /\ inv.cause = "VersionConflict"
    /\ remoteToken = 1 /\ lastSync["c1"] = 1 /\ lastSync["c2"] = 0
    /\ remoteRules = localRules["c1"] /\ remoteRules # localRules["c2"]

\* Whether `path` fails the rules group's validation of --rules-path.
NotARepository(path) ==
    LET ls == listdir(path) IN ls.raised # "no" \/ ".git" \notin ls.value

\* C5: a rules subcommand given a --rules-path without a .git entry ends in
\* failure before its body runs: neither uploader.upload nor checker.check
\* is called, and no upload of such a path is ever in flight.
C5_NoGitRejectedUpFront ==
    /\ (inv.cmd \in {"upload", "exec"} /\ NotARepository(inv.rules_path))
       => /\ ~inv.uploadCalled /\ ~inv.checkCalled
          /\ inv.exit # 0 /\ inv.logged
          /\ inv.err = "NotARepositoryError"
    /\ \A c \in Clients : up[c].pc = "fetched" => ~NotARepository(up[c].rules_path)

\* `rules -r plaindir upload` has ended with click's usage error.
C5_Witness ==
    /\ inv.cmd = "upload" /\ inv.rules_path = "plaindir"
    /\ inv.exit = 2 /\ ~inv.uploadCalled

\* C6 as stated: rules exec with an event file that is not well-formed JSON
\* fails before evaluation: checker.check is not called and the exit status
\* is a failure.
C6_MalformedEventStopsExec ==
    (inv.cmd = "exec" /\ json_load(inv.file).raised # "no")
    => ~inv.checkCalled /\ inv.exit # 0

\* Whether the last command called uploader or gnsapi with its API URL.
ApiCalled ==
    \/ inv.uploadCalled
    \/ inv.cmd \in {"cluster-info", "job-list", "kill-job"}
    \/ inv.sendCalls > 0

\* C7 as stated: no command that needs the API runs with an undefined URL.
C7_NoCallWithoutApiUrl == ApiCalled => inv.api_url # None

CompleteTriple(args) ==
    Len(args) = 3 /\ \A i \in 1..3 : Truthy(args[i])

TripleEvent(args) ==
    [t |-> "dict", host |-> args[1], service |-> args[2], severity |-> args[3]]

\* C8 as stated: send-event with neither --file nor a complete positional
\* triple exits 1 without calling gnsapi.send_event; otherwise it calls it
\* exactly once, with the file's JSON document when --file is given and with
\* the triple when it is not.
C8_SendEventCallsOnce ==
    inv.cmd = "send-event"
    => IF inv.file = None /\ ~CompleteTriple(inv.args)
       THEN inv.exit = 1 /\ inv.sendCalls = 0
       ELSE /\ inv.sendCalls = 1
            /\ IF inv.file # None
               THEN json_load(inv.file).raised = "no"
                    /\ inv.sendEvent = json_load(inv.file).value
               ELSE inv.sendEvent = TripleEvent(inv.args)

\* C8 amended: as stated when the file given as --file parses as JSON; a
\* --file that does not parse ends the command with exit status 1 and no
\* call of gnsapi.send_event.
C8_SendEventCallsOnceIfFileParses ==
    inv.cmd = "send-event"
    => IF inv.file = None /\ ~CompleteTriple(inv.args)
       THEN inv.exit = 1 /\ inv.sendCalls = 0
       ELSE IF inv.file # None /\ json_load(inv.file).raised # "no"
       THEN inv.exit = 1 /\ inv.sendCalls = 0
       ELSE /\ inv.sendCalls = 1
            /\ IF inv.file # None
               THEN inv.sendEvent = json_load(inv.file).value
               ELSE inv.sendEvent = TripleEvent(inv.args)

\* send-event was given both a file and a complete triple, and sent the
\* file's document.
C8_Witness ==
    /\ inv.cmd = "send-event" /\ inv.file = "{host,service,severity}"
    /\ CompleteTriple(inv.args)
    /\ inv.sendCalls = 1 /\ inv.sendEvent.host = "web1"

\* C9 as stated: a command in which an error of the taxonomy arose reports
\* it and exits with a non-zero status.
C9_ErrorsSurface == inv.err # "none" => inv.logged /\ inv.exit # 0

\* C10: a kill-job that succeeds marks the job for deletion and leaves it in
\* the job list; only the cluster removes it, later or never.
C10_KillOnlyMarks ==
    [][(inv'.cmd = "kill-job" /\ inv'.exit = 0 /\ (inv' # inv \/ marked' # marked))
       => /\ jobs' = jobs
          /\ inv'.job \in marked'
          /\ inv'.job \in jobs']_vars

\* job-42 is marked by a successful kill-job and the job-list run after it
\* still shows it.
C10_Witness ==
    /\ inv.cmd = "job-list" /\ inv.exit = 0
    /\ "job-42" \in marked /\ "job-42" \in inv.listed

====
